---- MODULE Spec2Model ----
(***************************************************************************)
(* next-safe-action: the server-side action builder (createSafeActionClient)*)
(* and the client-side hook bindings (getActionStatus, useActionCallbacks,  *)
(* useAction, useOptimisticAction).                                         *)
(*                                                                          *)
(* Four specifications share the module:                                    *)
(*   SpecAction  invocations of one built action, suspended and resumed at  *)
(*               the await points of the async function;                    *)
(*   SpecStatus  getActionStatus applied to every combination of inputs;    *)
(*   SpecHook    one hook instance, useAction or useOptimisticAction, whose *)
(*               executor is a built action;                                *)
(*   SpecRender  SpecHook whose component is also re-rendered by its parent *)
(*               with other callbacks.                                      *)
(***************************************************************************)
EXTENDS Integers, Sequences, FiniteSets, TLC

(***************************************************************************)
(* JavaScript values.  Every value is a record tagged with its type, so    *)
(* that `typeof v !== "undefined"` is v # Undefined.                        *)
(***************************************************************************)
Undefined == [t |-> "undefined"]
Str(s) == [t |-> "string", v |-> s]
Num(n) == [t |-> "number", v |-> n]
Obj(o) == [t |-> "object", v |-> o]
\* An Error instance; digest is the mark the host framework puts on its
\* redirect / not-found navigation signals ("" on any other Error).
Err(message, digest) == [t |-> "error", message |-> message, digest |-> digest]

\* A function value; id tells one function object from another.
Fn(id) == [t |-> "function", v |-> id]

DEFAULT_SERVER_ERROR == "Something went wrong while executing the operation"

isError(e) == e.t = "error"
isNextRedirectError(e) == isError(e) /\ e.digest = "NEXT_REDIRECT"
isNextNotFoundError(e) == isError(e) /\ e.digest = "NEXT_NOT_FOUND"

(***************************************************************************)
(* Bounds.                                                                  *)
(***************************************************************************)
\* Invocations of the built action that may be in progress at once.
MaxInvocations == 2
\* Calls one hook instance issues through execute.
MaxCalls == 2
\* Renders in which the parent supplies callbacks it has newly created.
MaxRenders == 2

Invocations == 1..MaxInvocations

(***************************************************************************)
(* Action results.  A result object is a record of the four fields; a key  *)
(* the object does not hold reads as undefined, as it does in the code.     *)
(***************************************************************************)
Result(data, validationError, serverError, fetchError) ==
  [data |-> data, validationError |-> validationError,
   serverError |-> serverError, fetchError |-> fetchError]

\* {}
EmptyResponse == Result(Undefined, Undefined, Undefined, Undefined)

(***************************************************************************)
(* The schema: z.object({ id: z.string().min(1) }).  Unknown keys are       *)
(* stripped by the parse, so the parsed input of an object with a `junk`    *)
(* key differs from the raw input.                                          *)
(***************************************************************************)
ObjInput(id, junk) == Obj([id |-> id, junk |-> junk])

ClientInputs ==
  { ObjInput(Str("u1"), Undefined),      \* passes, parsed = raw
    ObjInput(Str("u2"), Str("x")),       \* passes, junk is stripped
    ObjInput(Str(""), Undefined),        \* id too short
    ObjInput(Num(7), Str("x")),          \* id of the wrong type
    Str("not an object") }               \* not an object at all

\* The issues of a parse: a sequence of [path, message]; path <<>> is an
\* issue of the input as a whole.
Issues(clientInput) ==
  IF clientInput.t # "object"
    THEN << [path |-> <<>>, message |-> "Expected object"] >>
  ELSE IF clientInput.v.id = Undefined
    THEN << [path |-> <<"id">>, message |-> "Required"] >>
  ELSE IF clientInput.v.id.t # "string"
    THEN << [path |-> <<"id">>, message |-> "Expected string"] >>
  ELSE IF clientInput.v.id.v = ""
    THEN << [path |-> <<"id">>, message |-> "String must contain at least 1 character(s)"] >>
  ELSE << >>

\* schema.safeParse(clientInput)
safeParse(clientInput) ==
  LET issues == Issues(clientInput) IN
  IF issues = << >>
    THEN [success |-> TRUE, data |-> Obj([id |-> clientInput.v.id]), issues |-> issues]
    ELSE [success |-> FALSE, data |-> Undefined, issues |-> issues]

\* parsedInput.error.flatten().fieldErrors: field name -> its messages, in
\* order; issues of the whole input (empty path) are form errors and are
\* not part of it.
RECURSIVE MessagesOf(_, _)
MessagesOf(issues, field) ==
  IF issues = << >> THEN << >>
  ELSE LET rest == MessagesOf(Tail(issues), field) IN
       IF Head(issues).path # << >> /\ Head(issues).path[1] = field
         THEN << Head(issues).message >> \o rest
         ELSE rest

fieldErrors(issues) ==
  LET fields == { issues[k].path[1] : k \in { j \in DOMAIN issues : issues[j].path # << >> } } IN
  Obj([f \in fields |-> MessagesOf(issues, f)])

(***************************************************************************)
(* What the user-supplied callbacks may do when awaited: return a value or  *)
(* throw one.                                                               *)
(***************************************************************************)
Returns(v) == [throws |-> FALSE, value |-> v]
Throws(v) == [throws |-> TRUE, value |-> v]

Redirect == Err("NEXT_REDIRECT", "NEXT_REDIRECT")
NotFound == Err("NEXT_NOT_FOUND", "NEXT_NOT_FOUND")
\* Values buildContext and the handler throw.
Thrown == { Err("boom", ""), Redirect, NotFound, Str("thrown string") }
\* Values a custom handleServerErrorLog / handleReturnedServerError throws.
HookThrown == { Err("hook failed", ""), Undefined }

\* The three options of createSafeActionClient: which of them are supplied.
CreateOpts ==
  [buildContext : BOOLEAN, handleReturnedServerError : BOOLEAN, handleServerErrorLog : BOOLEAN]

\* The context object an invocation obtains: createdIn is the invocation
\* during which the object was created, built whether buildContext made it
\* (TRUE) or it is the literal {} of the fallback (FALSE).
Ctx(id, built) == Obj([createdIn |-> id, built |-> built])

\* createOpts?.buildContext?.() awaited: the built context, or a throw; with
\* no buildContext the optional call yields undefined.
buildContext(opts, id) ==
  IF opts.buildContext
    THEN { Returns(Ctx(id, TRUE)) } \cup { Throws(x) : x \in Thrown }
    ELSE { Returns(Undefined) }

\* serverCode(parsedInput, ctx) awaited: the handler returns nothing, a fixed
\* value or the input it was given, or throws.
serverCode(parsedInput) ==
  { Returns(v) : v \in { Undefined, Str("ok"), parsedInput } }
    \cup { Throws(x) : x \in Thrown }

\* handleServerErrorLog(e) awaited; the default writes e.message to
\* console.error and returns.
handleServerErrorLog(opts, e) ==
  IF opts.handleServerErrorLog
    THEN { Returns(Undefined) } \cup { Throws(x) : x \in HookThrown }
    ELSE { Returns(Undefined) }

\* Mutant: the default returns the error's own message.
handleReturnedServerErrorLeaks(opts, e) ==
  IF opts.handleReturnedServerError
    THEN { Returns(Result(Undefined, Undefined, Str(e.message), Undefined)),
           Returns(Result(Undefined, Undefined, Str("Custom message"), Undefined)) }
           \cup { Throws(x) : x \in HookThrown }
    ELSE { Returns(Result(Undefined, Undefined, Str(e.message), Undefined)) }

\* handleReturnedServerError(e) awaited; the default masks the error.
handleReturnedServerError(opts, e) ==
  IF opts.handleReturnedServerError
    THEN { Returns(Result(Undefined, Undefined, Str(e.message), Undefined)),
           Returns(Result(Undefined, Undefined, Str("Custom message"), Undefined)) }
           \cup { Throws(x) : x \in HookThrown }
    ELSE { Returns(Result(Undefined, Undefined, Str(DEFAULT_SERVER_ERROR), Undefined)) }

(***************************************************************************)
(* One invocation of the async function actionBuilder returns.  pc is the   *)
(* await at which the invocation is suspended (named after the callback it  *)
(* awaits), or how the promise settled; trace lists, in order, the calls it *)
(* has made and how each awaited call ended.                               *)
(***************************************************************************)
Call(fn, a1, a2) == [ev |-> "call", fn |-> fn, a1 |-> a1, a2 |-> a2]
\* The awaited call of fn ended with outcome o.
Ended(fn, o) ==
  [ev |-> IF o.throws THEN "throw" ELSE "return", fn |-> fn, a1 |-> o.value, a2 |-> Undefined]

NotStarted ==
  [pc |-> "idle", clientInput |-> Undefined, parsedInput |-> Undefined,
   ctx |-> Undefined, e |-> Undefined, result |-> EmptyResponse,
   rejection |-> Undefined, trace |-> << >>]

Resolve(r, result) == [r EXCEPT !.pc = "resolved", !.result = result]
Reject(r, value) == [r EXCEPT !.pc = "rejected", !.rejection = value]

\* Mutant: navigation signals are not re-thrown but handled as errors.
CatchNoRethrow(r, e) ==
  IF ~isError(e)
    THEN Resolve([r EXCEPT !.trace = Append(@, Call("console.warn", e, Undefined))],
                 Result(Undefined, Undefined, Str(DEFAULT_SERVER_ERROR), Undefined))
  ELSE [r EXCEPT !.pc = "handleServerErrorLog", !.e = e,
                 !.trace = Append(@, Call("handleServerErrorLog", e, Undefined))]

\* Mutant: a thrown value that is no Error is returned as the serverError.
CatchLeaksThrown(r, e) ==
  IF isNextRedirectError(e) \/ isNextNotFoundError(e)
    THEN Reject(r, e)
  ELSE IF ~isError(e)
    THEN Resolve([r EXCEPT !.trace = Append(@, Call("console.warn", e, Undefined))],
                 Result(Undefined, Undefined, e, Undefined))
  ELSE [r EXCEPT !.pc = "handleServerErrorLog", !.e = e,
                 !.trace = Append(@, Call("handleServerErrorLog", e, Undefined))]

\* catch (e) up to `await handleServerErrorLog(e)`.
Catch(r, e) ==
  IF isNextRedirectError(e) \/ isNextNotFoundError(e)
    THEN Reject(r, e)
  ELSE IF ~isError(e)
    THEN Resolve([r EXCEPT !.trace = Append(@, Call("console.warn", e, Undefined))],
                 Result(Undefined, Undefined, Str(DEFAULT_SERVER_ERROR), Undefined))
  ELSE [r EXCEPT !.pc = "handleServerErrorLog", !.e = e,
                 !.trace = Append(@, Call("handleServerErrorLog", e, Undefined))]

\* Mutant: schema.parse in place of safeParse, a failed parse throws.
BeginParseThrows(opts, clientInput) ==
  LET parsedInput == safeParse(clientInput)
      r == [NotStarted EXCEPT !.clientInput = clientInput] IN
  IF ~parsedInput.success
    THEN Catch(r, Err("ZodError", ""))
    ELSE [r EXCEPT !.pc = "buildContext", !.parsedInput = parsedInput.data,
                   !.trace = IF opts.buildContext
                               THEN << Call("buildContext", Undefined, Undefined) >>
                               ELSE << >>]

\* Mutant: a failed parse is reported as a server error as well.
BeginValidationAsServerError(opts, clientInput) ==
  LET parsedInput == safeParse(clientInput)
      r == [NotStarted EXCEPT !.clientInput = clientInput] IN
  IF ~parsedInput.success
    THEN Resolve(r, Result(Undefined, fieldErrors(parsedInput.issues),
                           Str(DEFAULT_SERVER_ERROR), Undefined))
    ELSE [r EXCEPT !.pc = "buildContext", !.parsedInput = parsedInput.data,
                   !.trace = IF opts.buildContext
                               THEN << Call("buildContext", Undefined, Undefined) >>
                               ELSE << >>]

\* The call of the action up to its first await: the parse, the early return
\* on a validation error, the call of buildContext.
Begin(opts, clientInput) ==
  LET parsedInput == safeParse(clientInput)
      r == [NotStarted EXCEPT !.clientInput = clientInput] IN
  IF ~parsedInput.success
    THEN Resolve(r, Result(Undefined, fieldErrors(parsedInput.issues), Undefined, Undefined))
    ELSE [r EXCEPT !.pc = "buildContext", !.parsedInput = parsedInput.data,
                   !.trace = IF opts.buildContext
                               THEN << Call("buildContext", Undefined, Undefined) >>
                               ELSE << >>]

\* Mutant: the handler is given the raw clientInput.
AfterBuildContextRawInput(r0, id, o) ==
  LET r == [r0 EXCEPT !.trace = Append(@, Ended("buildContext", o))] IN
  IF o.throws THEN Catch(r, o.value)
  ELSE LET ctx == IF o.value = Undefined THEN Ctx(id, FALSE) ELSE o.value IN
       [r EXCEPT !.pc = "serverCode", !.ctx = ctx,
                 !.trace = Append(@, Call("serverCode", r.clientInput, ctx))]

\* Mutant: the context is cached by the client, every invocation after the
\* first is handed the context of invocation 1.
AfterBuildContextCached(r0, id, o) ==
  LET r == [r0 EXCEPT !.trace = Append(@, Ended("buildContext", o))] IN
  IF o.throws THEN Catch(r, o.value)
  ELSE LET ctx == Ctx(1, o.value # Undefined) IN
       [r EXCEPT !.pc = "serverCode", !.ctx = ctx,
                 !.trace = Append(@, Call("serverCode", r.parsedInput, ctx))]

\* `(await ...buildContext?.()) ?? {}` resumes with outcome o, then the
\* handler is called.
AfterBuildContext(r0, id, o) ==
  LET r == [r0 EXCEPT !.trace = Append(@, Ended("buildContext", o))] IN
  IF o.throws THEN Catch(r, o.value)
  ELSE LET ctx == IF o.value = Undefined THEN Ctx(id, FALSE) ELSE o.value IN
       [r EXCEPT !.pc = "serverCode", !.ctx = ctx,
                 !.trace = Append(@, Call("serverCode", r.parsedInput, ctx))]

\* `await serverCode(...)` resumes with outcome o.
AfterServerCode(r0, o) ==
  LET r == [r0 EXCEPT !.trace = Append(@, Ended("serverCode", o))] IN
  IF o.throws THEN Catch(r, o.value)
  ELSE Resolve(r, Result(o.value, Undefined, Undefined, Undefined))

\* `await handleServerErrorLog(e)` resumes with outcome o; a throw here is
\* inside the catch block and leaves the function.
AfterServerErrorLog(r0, o) ==
  LET r == [r0 EXCEPT !.trace = Append(@, Ended("handleServerErrorLog", o))] IN
  IF o.throws THEN Reject(r, o.value)
  ELSE [r EXCEPT !.pc = "handleReturnedServerError",
                 !.trace = Append(@, Call("handleReturnedServerError", r.e, Undefined))]

\* `return await handleReturnedServerError(e)` resumes with outcome o.
AfterReturnedServerError(r0, o) ==
  LET r == [r0 EXCEPT !.trace = Append(@, Ended("handleReturnedServerError", o))] IN
  IF o.throws THEN Reject(r, o.value) ELSE Resolve(r, o.value)

Settled(r) == r.pc \in {"resolved", "rejected"}

\* The promise of one call of the built action, run to its end: every way the
\* async function can settle for this input, each with its trace.
safeAction(opts, id, clientInput) ==
  LET r0 == Begin(opts, clientInput)
      s1 == IF r0.pc = "buildContext"
              THEN { AfterBuildContext(r0, id, o) : o \in buildContext(opts, id) }
              ELSE { r0 }
      s2 == UNION { IF r.pc = "serverCode"
                      THEN { AfterServerCode(r, o) : o \in serverCode(r.parsedInput) }
                      ELSE { r } : r \in s1 }
      s3 == UNION { IF r.pc = "handleServerErrorLog"
                      THEN { AfterServerErrorLog(r, o) : o \in handleServerErrorLog(opts, r.e) }
                      ELSE { r } : r \in s2 }
  IN UNION { IF r.pc = "handleReturnedServerError"
               THEN { AfterReturnedServerError(r, o) : o \in handleReturnedServerError(opts, r.e) }
               ELSE { r } : r \in s3 }

(***************************************************************************)
(* The hooks.                                                               *)
(***************************************************************************)
\* Mutant: the error fields are tested before data.
getActionStatusErrorsFirst(isExecuting, response) ==
  IF isExecuting THEN "executing"
  ELSE IF \/ response.validationError # Undefined
          \/ response.serverError # Undefined
          \/ response.fetchError # Undefined
    THEN "hasErrored"
  ELSE IF response.data # Undefined THEN "hasSucceded"
  ELSE "idle"

\* Mutant: the response is looked at before isExecuting.
getActionStatusResponseFirst(isExecuting, response) ==
  IF response.data # Undefined THEN "hasSucceded"
  ELSE IF \/ response.validationError # Undefined
          \/ response.serverError # Undefined
          \/ response.fetchError # Undefined
    THEN "hasErrored"
  ELSE IF isExecuting THEN "executing"
  ELSE "idle"

getActionStatus(isExecuting, response) ==
  IF isExecuting THEN "executing"
  ELSE IF response.data # Undefined THEN "hasSucceded"
  ELSE IF \/ response.validationError # Undefined
          \/ response.serverError # Undefined
          \/ response.fetchError # Undefined
    THEN "hasErrored"
  ELSE "idle"

\* What the hook sees of a settled call: how the promise settled and with
\* what; returned tells whether the handler had returned.
NoOutcome == [pc |-> "idle", result |-> EmptyResponse, rejection |-> Undefined, returned |-> FALSE]
Outcome(r) ==
  [pc |-> r.pc, result |-> r.result, rejection |-> r.rejection,
   returned |-> \E k \in DOMAIN r.trace : r.trace[k].ev = "return" /\ r.trace[k].fn = "serverCode"]
\* The call never reached the action or its answer was lost on the way.
TransportFailure ==
  [pc |-> "rejected", result |-> EmptyResponse, rejection |-> Err("fetch failed", ""),
   returned |-> FALSE]

\* executor.current(input) settles: as the built action does, or with a
\* transport failure.
executor(opts, id, clientInput) ==
  { Outcome(r) : r \in safeAction(opts, id, clientInput) } \cup { TransportFailure }

\* Mutant: every rejection is stored as a fetchError, none re-thrown.
onRejectedNoRethrow(response, e) ==
  [response |-> Result(Undefined, Undefined, Undefined, e), setResponse |-> TRUE, thrown |-> << >>]

\* The .catch of execute: a navigation signal is re-thrown, anything else is
\* stored as {fetchError: e}.
onRejected(response, e) ==
  IF isNextRedirectError(e) \/ isNextNotFoundError(e)
    THEN [response |-> response, setResponse |-> FALSE, thrown |-> << e >>]
    ELSE [response |-> Result(Undefined, Undefined, Undefined, e), setResponse |-> TRUE,
          thrown |-> << >>]

\* The .then of execute: the result is stored as it is.
onFulfilled(response, result) ==
  [response |-> result, setResponse |-> TRUE, thrown |-> << >>]

\* The cb argument a render may supply: each callback is left out or is a
\* function created by that render.
Callbacks(render) ==
  [onSuccess : { Undefined, Fn(render) }, onError : { Undefined, Fn(render) }]

\* Mutant: the effect has no dependency list and runs after every render.
useActionCallbacksEveryRender(fired, depsChanged, response, input, status, onSuccess, onError, settling) ==
  IF onSuccess # Undefined /\ status = "hasSucceded"
    THEN Append(fired, [cb |-> "onSuccess", fn |-> onSuccess, a1 |-> response.data,
                        input |-> input, settling |-> settling])
  ELSE IF onError # Undefined /\ status = "hasErrored"
    THEN Append(fired, [cb |-> "onError", fn |-> onError, a1 |-> response,
                        input |-> input, settling |-> settling])
  ELSE fired

\* The effect of useActionCallbacks; it runs after a render in which one of
\* its dependencies (status, response, reset) changed, and calls what
\* onSuccessRef.current / onErrorRef.current hold.  fired is the list of the
\* callback invocations so far, fn the function invoked, settling the call
\* whose settlement brought the render about.
useActionCallbacks(fired, depsChanged, response, input, status, onSuccess, onError, settling) ==
  IF ~depsChanged THEN fired
  ELSE IF onSuccess # Undefined /\ status = "hasSucceded"
    THEN Append(fired, [cb |-> "onSuccess", fn |-> onSuccess, a1 |-> response.data,
                        input |-> input, settling |-> settling])
  ELSE IF onError # Undefined /\ status = "hasErrored"
    THEN Append(fired, [cb |-> "onError", fn |-> onError, a1 |-> response,
                        input |-> input, settling |-> settling])
  ELSE fired

\* useOptimisticAction.  Data is an object type; initialOptData is the
\* baseline, a Partial<Data> is what execute is given as the prediction.
initialOptData == [id |-> Str("init"), note |-> Str("none")]
OptimisticUpdates == { [note |-> Str("guess")], [id |-> Str("guess")] }

\* {...v}: the own properties of an object, none of undefined.
Spread(v) == IF v.t = "object" THEN v.v ELSE << >>

\* The first argument of experimental_useOptimistic.
passthrough(response) ==
  ("__isExecuting__" :> FALSE) @@ Spread(response.data) @@ initialOptData

\* Mutant: the prediction does not override what the state already holds.
reducerKeepsState(state, newState) == ("__isExecuting__" :> TRUE) @@ state @@ newState

\* Its second argument.
reducer(state, newState) == ("__isExecuting__" :> TRUE) @@ newState @@ state

\* experimental_useOptimistic(state, reducer): state itself while no update
\* is outstanding, otherwise the outstanding updates applied to it in order.
RECURSIVE experimental_useOptimistic(_, _)
experimental_useOptimistic(state, updates) ==
  IF updates = << >> THEN state
  ELSE experimental_useOptimistic(reducer(state, Head(updates)), Tail(updates))

(***************************************************************************)
(* State.                                                                   *)
(***************************************************************************)
CallIds == 1..MaxCalls

VARIABLES
  createOpts,   \* the options the client was created with
  inv,          \* SpecAction: the invocations of the built action
  statusArgs,   \* SpecStatus: the arguments of getActionStatus
  statusValue,  \* SpecStatus: what it returned ("none" before the call)
  hook,         \* SpecHook: which hook the component uses
  cb,           \* SpecHook: the callbacks supplied by the latest render
  onSuccessRef, \* SpecHook: onSuccessRef.current
  onErrorRef,   \* SpecHook: onErrorRef.current
  optUpdates,   \* SpecHook: the optimistic updates outstanding
  response,     \* SpecHook: the response state
  input,        \* SpecHook: the input state
  pending,      \* SpecHook: the calls issued by execute and not yet settled
  callInput,    \* SpecHook: the input each call was issued with
  settled,      \* SpecHook: how each call settled
  fired,        \* SpecHook: the callback invocations, in order
  rethrown      \* SpecHook: the values re-thrown out of execute's .catch

statusVars == << statusArgs, statusValue >>
callbackVars == << cb, onSuccessRef, onErrorRef >>
hookVars ==
  << hook, callbackVars, optUpdates, response, input, pending, callInput, settled,
     fired, rethrown >>
vars == << createOpts, inv, statusVars, hookVars >>

\* Each specification leaves the others' variables at rest.
StatusAtRest == statusArgs = << FALSE, EmptyResponse >> /\ statusValue = "none"
HookAtRest ==
  /\ hook = "useAction"
  /\ cb = [onSuccess |-> Undefined, onError |-> Undefined]
  /\ onSuccessRef = Undefined
  /\ onErrorRef = Undefined
  /\ optUpdates = << >>
  /\ response = EmptyResponse
  /\ input = Undefined
  /\ pending = {}
  /\ callInput = [c \in CallIds |-> Undefined]
  /\ settled = [c \in CallIds |-> NoOutcome]
  /\ fired = << >>
  /\ rethrown = << >>
ActionAtRest == inv = [i \in Invocations |-> NotStarted]

(***************************************************************************)
(* SpecAction: invocations of the built action, interleaved at their awaits.*)
(***************************************************************************)
InitAction ==
  /\ createOpts \in CreateOpts
  /\ inv = [i \in Invocations |-> NotStarted]
  /\ StatusAtRest
  /\ HookAtRest

\* The client calls the action with clientInput.
Invoke(i, clientInput) ==
  /\ inv[i].pc = "idle"
  /\ inv' = [inv EXCEPT ![i] = Begin(createOpts, clientInput)]
  /\ UNCHANGED << createOpts, statusVars, hookVars >>

ResumeBuildContext(i) ==
  /\ inv[i].pc = "buildContext"
  /\ \E o \in buildContext(createOpts, i) :
       inv' = [inv EXCEPT ![i] = AfterBuildContext(inv[i], i, o)]
  /\ UNCHANGED << createOpts, statusVars, hookVars >>

ResumeServerCode(i) ==
  /\ inv[i].pc = "serverCode"
  /\ \E o \in serverCode(inv[i].parsedInput) :
       inv' = [inv EXCEPT ![i] = AfterServerCode(inv[i], o)]
  /\ UNCHANGED << createOpts, statusVars, hookVars >>

ResumeServerErrorLog(i) ==
  /\ inv[i].pc = "handleServerErrorLog"
  /\ \E o \in handleServerErrorLog(createOpts, inv[i].e) :
       inv' = [inv EXCEPT ![i] = AfterServerErrorLog(inv[i], o)]
  /\ UNCHANGED << createOpts, statusVars, hookVars >>

ResumeReturnedServerError(i) ==
  /\ inv[i].pc = "handleReturnedServerError"
  /\ \E o \in handleReturnedServerError(createOpts, inv[i].e) :
       inv' = [inv EXCEPT ![i] = AfterReturnedServerError(inv[i], o)]
  /\ UNCHANGED << createOpts, statusVars, hookVars >>

NextAction ==
  \E i \in Invocations :
    \/ \E clientInput \in ClientInputs : Invoke(i, clientInput)
    \/ ResumeBuildContext(i)
    \/ ResumeServerCode(i)
    \/ ResumeServerErrorLog(i)
    \/ ResumeReturnedServerError(i)

SpecAction == InitAction /\ [][NextAction]_vars

(***************************************************************************)
(* SpecStatus: getActionStatus on every combination of its arguments.       *)
(***************************************************************************)
StatusResponses ==
  { Result(d, v, s, f) :
      d \in { Undefined, Str("ok"), Str("") },
      v \in { Undefined, fieldErrors(<< >>), fieldErrors(Issues(ObjInput(Str(""), Undefined))) },
      s \in { Undefined, Str(DEFAULT_SERVER_ERROR) },
      f \in { Undefined, Err("fetch failed", "") } }

InitStatus ==
  /\ statusArgs \in BOOLEAN \X StatusResponses
  /\ statusValue = "none"
  /\ createOpts = [buildContext |-> FALSE, handleReturnedServerError |-> FALSE,
                   handleServerErrorLog |-> FALSE]
  /\ ActionAtRest
  /\ HookAtRest

ApplyGetActionStatus ==
  /\ statusValue = "none"
  /\ statusValue' = getActionStatus(statusArgs[1], statusArgs[2])
  /\ UNCHANGED << createOpts, inv, statusArgs, hookVars >>

NextStatus == ApplyGetActionStatus

SpecStatus == InitStatus /\ [][NextStatus]_vars

(***************************************************************************)
(* SpecHook: one hook instance over a built action.                         *)
(*                                                                          *)
(* useAction's isExecuting is the isPending of useTransition: true from the *)
(* start of a transition until the promise its callback returned has        *)
(* settled, and, with several transitions under way, until all of them have.*)
(* useOptimisticAction's is the marker of the optimistic state: an update   *)
(* given to syncState is outstanding until the calls under way have settled,*)
(* and is applied to whatever the first argument is by then.                *)
(***************************************************************************)
Hooks == { "useAction", "useOptimisticAction" }

optState == experimental_useOptimistic(passthrough(response), optUpdates)
\* const { __isExecuting__: _, ...optimisticData } = optState
optimisticData == [k \in DOMAIN optState \ { "__isExecuting__" } |-> optState[k]]

isExecuting ==
  IF hook = "useAction" THEN pending # {} ELSE optState["__isExecuting__"]
status == getActionStatus(isExecuting, response)

\* The clients the hook is run against: created with no option, or with all.
HookCreateOpts ==
  { o \in CreateOpts : o.buildContext = o.handleReturnedServerError
                         /\ o.buildContext = o.handleServerErrorLog }

\* The inputs execute is given: two that pass the schema, one that fails.
HookInputs ==
  { ObjInput(Str("u1"), Undefined), ObjInput(Str("u2"), Str("x")),
    ObjInput(Str(""), Undefined) }

\* The first render: the refs take the callbacks it was given.  useAction is
\* run against both clients, useOptimisticAction against the one created
\* with no option.
InitHook ==
  /\ createOpts \in HookCreateOpts
  /\ hook \in Hooks
  /\ hook = "useOptimisticAction" => ~createOpts.buildContext
  /\ cb \in Callbacks(1)
  /\ onSuccessRef = cb.onSuccess
  /\ onErrorRef = cb.onError
  /\ optUpdates = << >>
  /\ response = EmptyResponse
  /\ input = Undefined
  /\ pending = {}
  /\ callInput = [c \in CallIds |-> Undefined]
  /\ settled = [c \in CallIds |-> NoOutcome]
  /\ fired = << >>
  /\ rethrown = << >>
  /\ ActionAtRest
  /\ StatusAtRest

\* Call c is the next one to be issued.
NextCall(c) ==
  /\ c \notin pending
  /\ settled[c] = NoOutcome
  /\ \A d \in CallIds : d < c => callInput[d] # Undefined
  /\ callInput[c] = Undefined

\* useAction's execute(clientInput), as call c: the input is recorded, the
\* transition starts and the action is called.  The render that follows runs
\* the effect when status changed.
execute(c, clientInput) ==
  /\ hook = "useAction"
  /\ NextCall(c)
  /\ UNCHANGED << createOpts, inv, statusVars, hook, callbackVars, optUpdates, response,
                  settled, rethrown >>
  /\ input' = clientInput
  /\ pending' = pending \cup {c}
  /\ callInput' = [callInput EXCEPT ![c] = clientInput]
  /\ fired' = useActionCallbacks(fired, status' # status, response', input', status',
                                 onSuccessRef, onErrorRef, c)

\* useOptimisticAction's execute(clientInput, newOptimisticData), as call c:
\* syncState, setInput, then the action is called.
executeOptimistic(c, clientInput, newOptimisticData) ==
  /\ hook = "useOptimisticAction"
  /\ NextCall(c)
  /\ UNCHANGED << createOpts, inv, statusVars, hook, callbackVars, response, settled,
                  rethrown >>
  /\ optUpdates' = Append(optUpdates, newOptimisticData)
  /\ input' = clientInput
  /\ pending' = pending \cup {c}
  /\ callInput' = [callInput EXCEPT ![c] = clientInput]
  /\ fired' = useActionCallbacks(fired, status' # status, response', input', status',
                                 onSuccessRef, onErrorRef, c)

\* Mutant: the settlement of a call is dropped when a later call was issued.
settleLatestOnly(c, o) ==
  /\ c \in pending
  /\ UNCHANGED << createOpts, inv, statusVars, hook, callbackVars, input, callInput >>
  /\ LET stale == \E d \in CallIds : d > c /\ callInput[d] # Undefined
         after == IF stale THEN [response |-> response, setResponse |-> FALSE, thrown |-> << >>]
                  ELSE IF o.pc = "resolved"
                    THEN onFulfilled(response, o.result)
                    ELSE onRejected(response, o.rejection) IN
     /\ response' = after.response
     /\ rethrown' = rethrown \o [k \in DOMAIN after.thrown |->
                                   [call |-> c, value |-> after.thrown[k]]]
     /\ pending' = pending \ {c}
     /\ optUpdates' = IF pending' = {} THEN << >> ELSE optUpdates
     /\ settled' = [settled EXCEPT ![c] = o]
     /\ fired' = useActionCallbacks(fired, after.setResponse \/ status' # status,
                                    response', input', status',
                                    onSuccessRef, onErrorRef, c)

\* The promise of call c settles with outcome o: .then or .catch runs, the
\* transition of the call ends (the optimistic updates are dropped with the
\* last call under way), and the render that follows runs the effect when
\* response was set or status changed.
settle(c, o) ==
  /\ c \in pending
  /\ UNCHANGED << createOpts, inv, statusVars, hook, callbackVars, input, callInput >>
  /\ LET after == IF o.pc = "resolved"
                    THEN onFulfilled(response, o.result)
                    ELSE onRejected(response, o.rejection) IN
     /\ response' = after.response
     /\ rethrown' = rethrown \o [k \in DOMAIN after.thrown |->
                                   [call |-> c, value |-> after.thrown[k]]]
     /\ pending' = pending \ {c}
     /\ optUpdates' = IF pending' = {} THEN << >> ELSE optUpdates
     /\ settled' = [settled EXCEPT ![c] = o]
     /\ fired' = useActionCallbacks(fired, after.setResponse \/ status' # status,
                                    response', input', status',
                                    onSuccessRef, onErrorRef, c)

\* Mutant: reset() forgets the recorded input as well.
resetClearsInput ==
  /\ UNCHANGED << createOpts, inv, statusVars, hook, callbackVars, optUpdates,
                  pending, callInput, settled, rethrown >>
  /\ response' = EmptyResponse
  /\ input' = Undefined
  /\ fired' = useActionCallbacks(fired, TRUE, response', input', status',
                                 onSuccessRef, onErrorRef, 0)

\* reset(): the response is set to a new {}.
reset ==
  /\ UNCHANGED << createOpts, inv, statusVars, hook, callbackVars, optUpdates, input,
                  pending, callInput, settled, rethrown >>
  /\ response' = EmptyResponse
  /\ fired' = useActionCallbacks(fired, TRUE, response', input', status',
                                 onSuccessRef, onErrorRef, 0)

\* The action given to useOptimisticAction returns Data, an object type.
Typed(o) ==
  hook = "useOptimisticAction" => o.result.data.t \in { "undefined", "object" }

\* Call c settles in one of the ways its executor can.
settleCall(c) ==
  /\ c \in pending
  /\ \E o \in executor(createOpts, c, callInput[c]) : Typed(o) /\ settle(c, o)

NextHook ==
  \/ \E c \in CallIds, clientInput \in HookInputs : execute(c, clientInput)
  \/ \E c \in CallIds, clientInput \in HookInputs, newOptimisticData \in OptimisticUpdates :
       executeOptimistic(c, clientInput, newOptimisticData)
  \/ \E c \in CallIds : settleCall(c)
  \/ reset

SpecHook == InitHook /\ [][NextHook]_vars

(***************************************************************************)
(* SpecRender: the hook of a component whose parent re-renders it.          *)
(***************************************************************************)
\* The parent renders the component again with callbacks newCb it created
\* for the occasion (render 1 is the first).  None of
\* the effect's dependencies (status, response, reset) changed, so the effect
\* does not run; the refs were given their value by the first render.
render(newCb) ==
  /\ newCb # cb
  /\ cb' = newCb
  /\ UNCHANGED << createOpts, inv, statusVars, hook, onSuccessRef, onErrorRef, optUpdates,
                  response, input, pending, callInput, settled, rethrown >>
  /\ fired' = useActionCallbacks(fired, FALSE, response', input', status',
                                 onSuccessRef, onErrorRef, 0)

\* useAction over the client created with no option, given both callbacks by
\* the first render.
InitRender ==
  /\ InitHook
  /\ ~createOpts.buildContext
  /\ hook = "useAction"
  /\ cb = [onSuccess |-> Fn(1), onError |-> Fn(1)]

NextRender ==
  \/ \E c \in CallIds, clientInput \in HookInputs : execute(c, clientInput)
  \/ \E c \in CallIds : settleCall(c)
  \/ reset
  \/ \E n \in 2..MaxRenders : \E newCb \in Callbacks(n) : render(newCb)

SpecRender == InitRender /\ [][NextRender]_vars

(***************************************************************************)
(* Properties of the action builder.                                        *)
(***************************************************************************)
ResultFields == {"data", "validationError", "serverError", "fetchError"}
\* The fields of a result that are populated (not undefined).
Populated(result) == { f \in ResultFields : result[f] # Undefined }

Started(r) == r.pc # "idle"
\* The positions in r's trace of the calls of fn, and of the throws and
\* returns of fn.
CallsOf(r, fn) == { k \in DOMAIN r.trace : r.trace[k].ev = "call" /\ r.trace[k].fn = fn }
ThrowsOf(r, fn) == { k \in DOMAIN r.trace : r.trace[k].ev = "throw" /\ r.trace[k].fn = fn }
ReturnsOf(r, fn) == { k \in DOMAIN r.trace : r.trace[k].ev = "return" /\ r.trace[k].fn = fn }

\* The schema, as stated: an object whose id is a non-empty string.
PassesSchema(clientInput) ==
  /\ clientInput.t = "object"
  /\ clientInput.v.id.t = "string"
  /\ clientInput.v.id.v # ""
\* What the schema makes of an input that passes: the id alone.
ParsedOf(clientInput) == Obj([id |-> clientInput.v.id])

IsNavigationSignal(e) == e \in {Redirect, NotFound}
ServerErrorResult(message) == Result(Undefined, Undefined, Str(message), Undefined)

\* C1: an input that fails the schema resolves to a result with only
\* validationError populated, and the invocation calls neither the handler,
\* nor buildContext, nor handleServerErrorLog, nor handleReturnedServerError.
C1_ValidationFailure ==
  \A i \in Invocations :
    (Started(inv[i]) /\ ~PassesSchema(inv[i].clientInput)) =>
      /\ inv[i].pc = "resolved"
      /\ Populated(inv[i].result) = {"validationError"}
      /\ inv[i].result.validationError.t = "object"
      /\ \A fn \in {"serverCode", "buildContext", "handleServerErrorLog",
                    "handleReturnedServerError"} : CallsOf(inv[i], fn) = {}

C1_Witness ==
  \E i \in Invocations :
    /\ inv[i].pc = "resolved"
    /\ ~PassesSchema(inv[i].clientInput)
    /\ inv[i].result.validationError # Undefined
    /\ "id" \in DOMAIN inv[i].result.validationError.v

\* C2, as stated: for an input that passes the schema the handler is invoked
\* exactly once, with the parsed input and a context object, and the result
\* has only data populated.
C2_Original ==
  \A i \in Invocations :
    (Settled(inv[i]) /\ PassesSchema(inv[i].clientInput)) =>
      /\ Cardinality(CallsOf(inv[i], "serverCode")) = 1
      /\ \A k \in CallsOf(inv[i], "serverCode") :
           /\ inv[i].trace[k].a1 = ParsedOf(inv[i].clientInput)
           /\ inv[i].trace[k].a2.t = "object"
      /\ inv[i].pc = "resolved"
      /\ Populated(inv[i].result) = {"data"}

\* C2, amended: for an input that passes the schema the handler is never
\* invoked more than once; it is invoked exactly once, with the parsed input
\* and a context object, once buildContext has not thrown, and not at all
\* when buildContext threw; when the handler returns v the action resolves to
\* {data: v} with no other field populated (data itself is populated unless
\* v is undefined).
C2_HandlerOnceOnParsedInput ==
  \A i \in Invocations :
    (Started(inv[i]) /\ PassesSchema(inv[i].clientInput)) =>
      /\ Cardinality(CallsOf(inv[i], "serverCode")) <= 1
      /\ \A k \in CallsOf(inv[i], "serverCode") :
           /\ inv[i].trace[k].a1 = ParsedOf(inv[i].clientInput)
           /\ inv[i].trace[k].a2.t = "object"
      /\ ReturnsOf(inv[i], "buildContext") # {} =>
           Cardinality(CallsOf(inv[i], "serverCode")) = 1
      /\ ThrowsOf(inv[i], "buildContext") # {} => CallsOf(inv[i], "serverCode") = {}
      /\ \A k \in ReturnsOf(inv[i], "serverCode") :
           /\ inv[i].pc = "resolved"
           /\ inv[i].result = Result(inv[i].trace[k].a1, Undefined, Undefined, Undefined)
           /\ Populated(inv[i].result) =
                (IF inv[i].trace[k].a1 = Undefined THEN {} ELSE {"data"})

C2_Witness ==
  \E i \in Invocations :
    /\ inv[i].pc = "resolved"
    /\ PassesSchema(inv[i].clientInput)
    /\ inv[i].clientInput.v.junk # Undefined
    /\ inv[i].clientInput # ParsedOf(inv[i].clientInput)
    /\ ReturnsOf(inv[i], "serverCode") # {}
    /\ inv[i].result.data = Obj([id |-> Str("u2")])

\* C3, as stated: the promise of the built action rejects only with a
\* navigation signal.
C3_OnlyNavigationRejects ==
  \A i \in Invocations :
    inv[i].pc = "rejected" => IsNavigationSignal(inv[i].rejection)

\* C4: a navigation signal thrown by buildContext or the handler rejects the
\* action with that same value; there is no result, and neither
\* handleServerErrorLog nor handleReturnedServerError is invoked.
C4_NavigationSignalRethrown ==
  \A i \in Invocations :
    \A k \in ThrowsOf(inv[i], "buildContext") \cup ThrowsOf(inv[i], "serverCode") :
      IsNavigationSignal(inv[i].trace[k].a1) =>
        /\ inv[i].pc = "rejected"
        /\ inv[i].rejection = inv[i].trace[k].a1
        /\ inv[i].result = EmptyResponse
        /\ CallsOf(inv[i], "handleServerErrorLog") = {}
        /\ CallsOf(inv[i], "handleReturnedServerError") = {}

C4_Witness ==
  /\ \E i \in Invocations :
       inv[i].pc = "rejected" /\ inv[i].rejection = Redirect
         /\ ThrowsOf(inv[i], "serverCode") # {}
  /\ \E i \in Invocations :
       inv[i].pc = "rejected" /\ inv[i].rejection = NotFound
         /\ ThrowsOf(inv[i], "buildContext") # {}

\* C5: with neither handleReturnedServerError nor handleServerErrorLog
\* supplied, an Error thrown by the handler yields exactly
\* {serverError: DEFAULT_SERVER_ERROR}, which is not the error's message, and
\* the logging hook is invoked exactly once, with the error thrown.
C5_DefaultsMaskError ==
  (~createOpts.handleReturnedServerError /\ ~createOpts.handleServerErrorLog) =>
    \A i \in Invocations :
      \A k \in ThrowsOf(inv[i], "serverCode") :
        LET e == inv[i].trace[k].a1 IN
        (isError(e) /\ ~IsNavigationSignal(e)) =>
          /\ inv[i].pc # "rejected"
          /\ Cardinality(CallsOf(inv[i], "handleServerErrorLog")) = 1
          /\ \A c \in CallsOf(inv[i], "handleServerErrorLog") : inv[i].trace[c].a1 = e
          /\ inv[i].pc = "resolved" =>
               /\ inv[i].result = ServerErrorResult(DEFAULT_SERVER_ERROR)
               /\ \A f \in ResultFields : inv[i].result[f] # Str(e.message)

C5_Witness ==
  /\ ~createOpts.handleReturnedServerError /\ ~createOpts.handleServerErrorLog
  /\ \E i \in Invocations :
       /\ inv[i].pc = "resolved"
       /\ \E k \in ThrowsOf(inv[i], "serverCode") : inv[i].trace[k].a1 = Err("boom", "")
       /\ inv[i].result.serverError = Str(DEFAULT_SERVER_ERROR)

\* C6: a thrown value that is no Error (and no navigation signal) resolves
\* the action to {serverError: DEFAULT_SERVER_ERROR} whatever the options,
\* invokes neither handleServerErrorLog nor handleReturnedServerError, and is
\* not part of the result.
C6_NonErrorThrown ==
  \A i \in Invocations :
    \A k \in ThrowsOf(inv[i], "buildContext") \cup ThrowsOf(inv[i], "serverCode") :
      LET e == inv[i].trace[k].a1 IN
      (~isError(e) /\ ~IsNavigationSignal(e)) =>
        /\ inv[i].pc = "resolved"
        /\ inv[i].result = ServerErrorResult(DEFAULT_SERVER_ERROR)
        /\ CallsOf(inv[i], "handleServerErrorLog") = {}
        /\ CallsOf(inv[i], "handleReturnedServerError") = {}
        /\ \A f \in ResultFields : inv[i].result[f] # e

C6_Witness ==
  /\ createOpts.handleReturnedServerError
  /\ \E i \in Invocations :
       /\ inv[i].pc = "resolved"
       /\ \E k \in ThrowsOf(inv[i], "buildContext") : inv[i].trace[k].a1 = Str("thrown string")
  /\ \E i \in Invocations :
       /\ inv[i].pc = "resolved"
       /\ \E k \in ThrowsOf(inv[i], "serverCode") : inv[i].trace[k].a1 = Str("thrown string")

(***************************************************************************)
(* Properties of the hooks.                                                 *)
(***************************************************************************)
\* C7: every result the built action resolves to has at most one of data,
\* validationError, serverError and fetchError populated and never
\* fetchError; a fetchError in the hook's response is one the hook stored
\* itself, for a call that was rejected with that value.
C7_OneVariantNoFetchError ==
  /\ \A c \in CallIds :
       settled[c].pc = "resolved" =>
         /\ Cardinality(Populated(settled[c].result)) <= 1
         /\ settled[c].result.fetchError = Undefined
  /\ response.fetchError # Undefined =>
       \E c \in CallIds :
         /\ settled[c].pc = "rejected"
         /\ ~IsNavigationSignal(settled[c].rejection)
         /\ response = Result(Undefined, Undefined, Undefined, settled[c].rejection)

C7_Witness ==
  /\ \E c \in CallIds :
       /\ settled[c].pc = "resolved"
       /\ Populated(settled[c].result) = {"serverError"}
       /\ settled[c].result.serverError = Str("Custom message")
  /\ \E c \in CallIds :
       /\ settled[c].pc = "rejected"
       /\ settled[c].rejection = Err("hook failed", "")
  /\ response.fetchError = Err("hook failed", "")

\* What the claim says getActionStatus returns.
StatedStatus(executing, r) ==
  IF executing THEN "executing"
  ELSE IF "data" \in Populated(r) THEN "hasSucceded"
  ELSE IF Populated(r) \cap {"validationError", "serverError", "fetchError"} # {}
    THEN "hasErrored"
  ELSE "idle"

\* C8: getActionStatus is 'executing' when isExecuting; else 'hasSucceded'
\* when data is defined, whatever the error fields; else 'hasErrored' when
\* one of validationError, serverError, fetchError is defined; else 'idle'.
C8_StatusDerivation ==
  statusValue # "none" => statusValue = StatedStatus(statusArgs[1], statusArgs[2])

C8_Witness ==
  /\ statusValue = "hasSucceded"
  /\ statusArgs[2].data = Str("")
  /\ statusArgs[2].serverError # Undefined
  /\ statusArgs[2].fetchError # Undefined

\* C9: when a call issued by execute settles: resolved, response becomes the
\* result; rejected with a navigation signal, the signal is re-thrown and
\* response stays as it was; rejected with anything else, response becomes
\* {fetchError: e} and nothing is re-thrown.
C9_SettlementStored ==
  [][\A c \in CallIds :
       (c \in pending /\ c \notin pending') =>
         LET o == settled'[c] IN
         /\ o.pc = "resolved" => (response' = o.result /\ rethrown' = rethrown)
         /\ (o.pc = "rejected" /\ IsNavigationSignal(o.rejection)) =>
              /\ response' = response
              /\ rethrown' = Append(rethrown, [call |-> c, value |-> o.rejection])
         /\ (o.pc = "rejected" /\ ~IsNavigationSignal(o.rejection)) =>
              /\ response' = Result(Undefined, Undefined, Undefined, o.rejection)
              /\ rethrown' = rethrown]_vars

C9_Witness ==
  /\ pending = {}
  /\ settled[1].pc = "resolved"
  /\ settled[1].result.data = Str("ok")
  /\ settled[2].pc = "rejected"
  /\ settled[2].rejection = Redirect
  /\ rethrown = << [call |-> 2, value |-> Redirect] >>
  /\ response = settled[1].result

\* C10, as stated: when a call resolves after its handler returned, onSuccess
\* fires exactly once for that resolution, with the call's data and the
\* input the call was issued with.
C10_OnSuccessOncePerResolution ==
  onSuccessRef # Undefined =>
    \A c \in CallIds :
      (settled[c].pc = "resolved" /\ settled[c].returned) =>
        /\ Cardinality({ k \in DOMAIN fired :
                           fired[k].cb = "onSuccess" /\ fired[k].settling = c }) = 1
        /\ \A k \in DOMAIN fired :
             (fired[k].cb = "onSuccess" /\ fired[k].settling = c) =>
               /\ fired[k].a1 = settled[c].result.data
               /\ fired[k].input = callInput[c]

(***************************************************************************)
(* Further properties of the action builder.                                *)
(***************************************************************************)
\* C18, as stated: when buildContext or the handler throws an Error that is
\* no navigation signal, handleServerErrorLog is invoked exactly once with
\* it and has ended before handleReturnedServerError is invoked, which is
\* invoked exactly once with the same error and whose value is the result.
C18_LogThenReturnedError ==
  \A i \in Invocations :
    \A k \in ThrowsOf(inv[i], "buildContext") \cup ThrowsOf(inv[i], "serverCode") :
      LET e == inv[i].trace[k].a1 IN
      (isError(e) /\ ~IsNavigationSignal(e) /\ Settled(inv[i])) =>
        /\ Cardinality(CallsOf(inv[i], "handleServerErrorLog")) = 1
        /\ \A c \in CallsOf(inv[i], "handleServerErrorLog") : inv[i].trace[c].a1 = e
        /\ Cardinality(CallsOf(inv[i], "handleReturnedServerError")) = 1
        /\ \A c \in CallsOf(inv[i], "handleReturnedServerError") :
             /\ inv[i].trace[c].a1 = e
             /\ \E d \in ReturnsOf(inv[i], "handleServerErrorLog") : d < c
        /\ inv[i].pc = "resolved"
        /\ \E d \in ReturnsOf(inv[i], "handleReturnedServerError") :
             inv[i].result = inv[i].trace[d].a1

\* C19: an invocation whose input passes the schema calls buildContext, when
\* configured, exactly once, first of all its calls and before the handler;
\* an input that fails never calls it; the context handed to the handler is
\* the one obtained in that same invocation (built by buildContext, or the
\* invocation's own {} when there is none), however invocations interleave.
C19_ContextPerInvocation ==
  \A i \in Invocations :
    /\ (Started(inv[i]) /\ ~PassesSchema(inv[i].clientInput)) =>
         CallsOf(inv[i], "buildContext") = {}
    /\ (Started(inv[i]) /\ PassesSchema(inv[i].clientInput)) =>
         /\ CallsOf(inv[i], "buildContext") = (IF createOpts.buildContext THEN {1} ELSE {})
         /\ \A k \in CallsOf(inv[i], "serverCode") :
              /\ \A b \in CallsOf(inv[i], "buildContext") : b < k
              /\ inv[i].trace[k].a2 = Ctx(i, createOpts.buildContext)
              /\ \A j \in Invocations \ {i} : inv[j].ctx # inv[i].trace[k].a2

C19_Witness ==
  /\ createOpts.buildContext
  /\ inv[1].pc = "serverCode"
  /\ inv[2].pc = "resolved"
  /\ \E k \in CallsOf(inv[2], "serverCode") : inv[2].trace[k].a2 = Ctx(2, TRUE)
  /\ inv[1].ctx = Ctx(1, TRUE)

(***************************************************************************)
(* Properties of the hooks under concurrency, reset and re-rendering.       *)
(***************************************************************************)
\* A step in which execute issued a call / a call settled.
Issued == pending' # pending /\ pending \subseteq pending'
Settling == pending' # pending /\ pending' \subseteq pending
Optimistic == hook = "useOptimisticAction"
\* initialOptData overridden by the confirmed response.data.
Confirmed(resp) == Spread(resp.data) @@ initialOptData

\* C14, as stated: once a call of useOptimisticAction has resolved,
\* optimisticData is initialOptData overridden by response.data and the
\* in-flight marker is cleared.
C14_Original ==
  [][(Optimistic /\ Settling) =>
       (optimisticData' = Confirmed(response') /\ ~optState'["__isExecuting__"])]_vars

\* C14, amended: execute(input, update) at once makes optimisticData the
\* optimistic view of before overridden by update, with the marker set and
\* status "executing"; once a call has settled and no other call is in
\* flight, optimisticData is initialOptData overridden by response.data and
\* the marker is cleared, and while another call is in flight the marker stays
\* set; optimisticData never has the __isExecuting__ key.
C14_OptimisticView ==
  [][Optimistic =>
       /\ Issued =>
            /\ optimisticData' = optUpdates'[Len(optUpdates')] @@ optimisticData
            /\ optState'["__isExecuting__"]
            /\ status' = "executing"
       /\ (Settling /\ pending' = {}) =>
            /\ optimisticData' = Confirmed(response')
            /\ ~optState'["__isExecuting__"]
       /\ (Settling /\ pending' # {}) => optState'["__isExecuting__"]
       /\ "__isExecuting__" \notin DOMAIN optimisticData'
       /\ DOMAIN optimisticData' = DOMAIN initialOptData]_vars

C14_Witness ==
  /\ Optimistic
  /\ pending = {2}
  /\ settled[1].pc = "resolved"
  /\ settled[1].result.data = Obj([id |-> Str("u1")])
  /\ response = settled[1].result
  /\ optUpdates = << [note |-> Str("guess")], [id |-> Str("guess")] >>
  /\ optimisticData = [id |-> Str("guess"), note |-> Str("guess")]
  /\ status = "executing"

\* The callback invocation a step added.
Fires == Len(fired') > Len(fired)
LastFired == fired'[Len(fired')]

\* C13, as stated: a change of the callbacks supplied fires nothing by
\* itself, and the callback a later transition invokes is the one supplied
\* by the latest render, not the first render's.
C13_LatestCallbackInvoked ==
  [][/\ cb' # cb => fired' = fired
     /\ Fires => LastFired.fn = cb'[LastFired.cb]]_vars

Terminal == { "hasSucceded", "hasErrored" }

\* C16: a callback is invoked only by a step that takes status into
\* hasSucceded (onSuccess) or hasErrored (onError) from another status, one
\* invocation per such step, and such a step invokes the callback the ref
\* holds; a step that leaves status as it was (a re-render, a changed
\* response) or ends in idle or executing invokes nothing.
C16_CallbacksOnEdgeOnly ==
  [][/\ Fires =>
          /\ status' \in Terminal
          /\ status' # status
          /\ Len(fired') = Len(fired) + 1
          /\ LastFired.cb = (IF status' = "hasSucceded" THEN "onSuccess" ELSE "onError")
     /\ (status' # status /\ status' = "hasSucceded" /\ onSuccessRef # Undefined) => Fires
     /\ (status' # status /\ status' = "hasErrored" /\ onErrorRef # Undefined) => Fires
     /\ status' = status => fired' = fired
     /\ status' \notin Terminal => fired' = fired]_vars

\* A re-render with other callbacks while status is hasSucceded, the one
\* invocation of onSuccess made.
C16_Witness ==
  /\ status = "hasSucceded"
  /\ cb.onSuccess = Fn(2)
  /\ onSuccessRef = Fn(1)
  /\ Len(fired) = 1
  /\ fired[1].cb = "onSuccess"
  /\ callInput[2] = Undefined

\* C12: reset() (the step that neither issues nor settles a call) leaves
\* response = {}; status is then "idle" when no call is in flight and
\* "executing" when one is; the recorded input, the calls in flight, the
\* optimistic updates and the callback invocations are as before.
C12_ResetClearsResponseOnly ==
  [][(pending' = pending /\ cb' = cb) =>
       /\ response' = EmptyResponse
       /\ status' = (IF pending = {} THEN "idle" ELSE "executing")
       /\ input' = input
       /\ optUpdates' = optUpdates
       /\ callInput' = callInput
       /\ settled' = settled
       /\ fired' = fired
       /\ rethrown' = rethrown]_vars

\* reset() was called after call 1 left its data in response, before or
\* after call 2 was issued.
C12_Witness ==
  /\ pending = {2}
  /\ settled[1].pc = "resolved"
  /\ settled[1].result.data # Undefined
  /\ response = EmptyResponse
  /\ input = callInput[2]
  /\ status = "executing"

\* C17: while a call issued by execute has not settled, status is
\* "executing", whatever response holds; with no call in flight it is what
\* getActionStatus makes of response alone.
C17_StatusWhileInFlight ==
  /\ pending # {} => (isExecuting /\ status = "executing")
  /\ pending = {} =>
       /\ ~isExecuting
       /\ status = (IF response.data # Undefined THEN "hasSucceded"
                    ELSE IF Populated(response) # {} THEN "hasErrored"
                    ELSE "idle")

\* Call 2 is in flight while response still holds the data of call 1.
C17_Witness ==
  /\ pending = {2}
  /\ settled[1].pc = "resolved"
  /\ response = settled[1].result
  /\ response.data # Undefined
  /\ status = "executing"

\* What the settlement o of a call leaves in response: the result, or the
\* rejection as a fetchError.
Stored(o) ==
  IF o.pc = "resolved" THEN o.result
  ELSE Result(Undefined, Undefined, Undefined, o.rejection)

\* C11, as stated: a call that settles while another is in flight leaves the
\* other in flight, overwrites response with its result, and fires at most
\* one callback.
C11_Original ==
  [][\A c \in pending \ pending' :
       pending # {c} =>
         /\ response' = Stored(settled'[c])
         /\ pending' = pending \ {c}
         /\ Len(fired') <= Len(fired) + 1]_vars

\* C11, amended: a call that settles cancels no other call; unless it was
\* rejected with a navigation signal it overwrites response with its result
\* (the rejection as {fetchError}), whichever call was issued first, so that
\* response is the result of the call that settled last; rejected with a
\* navigation signal it leaves response as it was; a settlement invokes at
\* most one callback.
C11_LastSettledWins ==
  [][\A c \in pending \ pending' :
       LET o == settled'[c] IN
       /\ pending' = pending \ {c}
       /\ \A d \in CallIds \ {c} : settled'[d] = settled[d]
       /\ (o.pc = "rejected" /\ IsNavigationSignal(o.rejection)) => response' = response
       /\ ~(o.pc = "rejected" /\ IsNavigationSignal(o.rejection)) => response' = Stored(o)
       /\ Len(fired') <= Len(fired) + 1
       /\ \A k \in DOMAIN fired' : k > Len(fired) => fired'[k].settling = c]_vars

\* Both calls were in flight together and call 1, issued first, settled last:
\* response is its result, not the result of call 2.
C11_Witness ==
  /\ pending = {}
  /\ settled[1].pc = "resolved"
  /\ settled[2].pc = "resolved"
  /\ Populated(settled[2].result) # {}
  /\ settled[1].result # settled[2].result
  /\ response = settled[1].result
  /\ response.data # Undefined

\* The edges of status the claim allows.
StatusEdges ==
  { << "idle", "executing" >>, << "executing", "hasSucceded" >>,
    << "executing", "hasErrored" >>, << "hasSucceded", "idle" >>,
    << "hasErrored", "idle" >>, << "hasSucceded", "executing" >>,
    << "hasErrored", "executing" >> }

\* C15, as stated: status changes only along idle -> executing, executing ->
\* hasSucceded / hasErrored, hasSucceded / hasErrored -> idle (by reset only)
\* and hasSucceded / hasErrored -> executing (by execute only).
C15_StatusEdges ==
  [][status' # status =>
       /\ << status, status' >> \in StatusEdges
       /\ (status \in Terminal /\ status' = "idle") => pending' = pending
       /\ (status \in Terminal /\ status' = "executing") => Issued]_vars

\* C20, as stated: once the last call in flight has settled, reset() having
\* been called or not while it was in flight, response is that call's result
\* (or {fetchError}), not {}, and status is hasSucceded or hasErrored.
C20_SettlementAfterReset ==
  [][\A c \in pending \ pending' :
       pending' = {} =>
         /\ response' = Stored(settled'[c])
         /\ response' # EmptyResponse
         /\ status' \in Terminal]_vars

====
